---------------------------- MODULE Spec2Model ----------------------------
(***************************************************************************)
(* Two independent batch scripts of the repository:                        *)
(*   bin/reporting.py          main / parse / dummy_emitter                *)
(*   bin/workloadgenerator.py  generate_configuration                      *)
(* Both are Python 2 programs (print statement, xrange, raw_input), so     *)
(* `/` on two ints is floor division.                                      *)
(*                                                                         *)
(* A log line is a sequence of tokens (strings).  A token stands for the   *)
(* text it spells; tokens are chosen so that no marker the code looks for  *)
(* spans two tokens, hence `x in line` is token membership and             *)
(* line.split(x) splits the sequence at the tokens equal to x.             *)
(***************************************************************************)
EXTENDS Integers, Sequences, FiniteSets, TLC

\* ------------------------------------------------------------------ bounds
\* longest log file, in lines
MaxLines == 3
\* timestamps written in the log are 0, 10, ..., 10 * MaxTick
MaxTick == 2
\* largest record count / insert count given on the command line
MaxRecordCount == 100
MaxInsertCount == 50

\* ------------------------------------------------------- reporting.py text
FAILED == "failed"
THROUGHPUT == "current ops/sec"
SEC == "sec:"
READ_LATENCY == "READ AverageLatency(us)="
RBRACKET == "]"
NEWLINE == "\n"
NOISE == "other"

Whitespace == {NEWLINE}

Times == {10 * k : k \in 0..MaxTick}
\* the read latency the log reports for the interval ending at t
LoggedLatency(t) == IF t = 0 THEN "120" ELSE "130"

\* the integers some token of a log spells: int() accepts these tokens
Numerals == Times \cup {120, 130}

\* "%s" % n
Str(n) == ToString(n)

\* a throughput report "<t> sec: ... current ops/sec; [READ AverageLatency(us)=<l>]"
SampleLine(t, l) == <<Str(t), SEC, THROUGHPUT, READ_LATENCY, l, RBRACKET, NEWLINE>>
\* a throughput report of an interval with no read operation
NoReadLine(t) == <<Str(t), SEC, THROUGHPUT, NEWLINE>>

\* the lines a log is made of
Lines ==
    {SampleLine(t, LoggedLatency(t)) : t \in Times}
    \cup {NoReadLine(t) : t \in Times}
    \cup { <<NOISE, NEWLINE>>,
           <<FAILED, NEWLINE>>,
           <<Str(0), SEC, THROUGHPUT, FAILED, NEWLINE>>,
           <<THROUGHPUT, NEWLINE>>,
           <<Str(0), SEC, THROUGHPUT, SEC, NEWLINE>>,
           <<NOISE, SEC, THROUGHPUT, NEWLINE>> }

Files == UNION {[1..n -> Lines] : n \in 0..MaxLines}

\* the values of -d/--delta
DeltaFlags == {10, 20}

\* ------------------------------------------------------------ str helpers
\* x in line
Contains(line, x) == \E i \in DOMAIN line : line[i] = x

\* line.split(x): the pieces between the occurrences of x
RECURSIVE Split(_, _)
Split(s, x) ==
    IF ~Contains(s, x) THEN <<s>>
    ELSE LET i == CHOOSE j \in DOMAIN s :
                      s[j] = x /\ \A k \in 1..(j - 1) : s[k] # x
         IN  <<SubSeq(s, 1, i - 1)>> \o Split(SubSeq(s, i + 1, Len(s)), x)

\* s.strip()
Strip(s) ==
    LET keep == {i \in DOMAIN s : s[i] \notin Whitespace}
    IN  IF keep = {} THEN <<>>
        ELSE SubSeq(s, CHOOSE i \in keep : \A j \in keep : i <= j,
                       CHOOSE i \in keep : \A j \in keep : j <= i)

\* s.replace(x, "")
Remove(s, x) == SelectSeq(s, LAMBDA c : c # x)

\* int(s) succeeds
IsInt(s) == Len(s) = 1 /\ \E n \in Numerals : Str(n) = s[1]
\* int(s)
Int_(s) == CHOOSE n \in Numerals : Str(n) = s[1]

\* ------------------------------------------------------------ reporting.py
\* the text printed for the int -1
NoOps == <<Str(0 - 1)>>

\* one printed row "%s\t%s" % (time, avg_latency)
Row(time, avg_latency) == [time |-> time, avg_latency |-> avg_latency]

ParseError == [err |-> TRUE, time |-> 0, avg_latency |-> <<>>]

\* parse as it would be if a line without "sec:" were read as time 0 with no
\* latency instead of failing to unpack
parse_lenient(line) ==
    LET parts == Split(line, SEC)
    IN  IF Len(parts) = 1 THEN [err |-> FALSE, time |-> 0, avg_latency |-> NoOps]
        ELSE IF Len(parts) # 2 THEN ParseError
        ELSE IF ~IsInt(Strip(parts[1])) THEN ParseError
        ELSE LET fields == Split(parts[2], READ_LATENCY)
             IN  [err |-> FALSE,
                  time |-> Int_(Strip(parts[1])),
                  avg_latency |-> IF Len(fields) < 2 THEN NoOps
                                  ELSE Remove(fields[2], RBRACKET)]

\* parse as it would be without the except IndexError clause
parse_strict(line) ==
    LET parts == Split(line, SEC)
    IN  IF Len(parts) # 2 THEN ParseError
        ELSE IF ~IsInt(Strip(parts[1])) THEN ParseError
        ELSE LET fields == Split(parts[2], READ_LATENCY)
             IN  IF Len(fields) < 2 THEN ParseError
                 ELSE [err |-> FALSE,
                       time |-> Int_(Strip(parts[1])),
                       avg_latency |-> Remove(fields[2], RBRACKET)]

\* parse(line): (time, avg_latency), or ValueError when the line does not split into
\* exactly two pieces at "sec:" or its first piece is no integer
parse(line) ==
    LET parts == Split(line, SEC)
    IN  IF Len(parts) # 2 THEN ParseError
        ELSE IF ~IsInt(Strip(parts[1])) THEN ParseError
        ELSE LET rest == parts[2]
                 fields == Split(rest, READ_LATENCY)
             IN  [err |-> FALSE,
                  time |-> Int_(Strip(parts[1])),
                  avg_latency |-> IF Len(fields) < 2 THEN NoOps
                                  ELSE Remove(fields[2], RBRACKET)]

\* dummy_emitter as it would be with xrange(start, end + 1)
dummy_emitter_inclusive(start, end) ==
    [k \in 1..(IF end + 1 > start THEN end + 1 - start ELSE 0) |-> Row(start + k - 1, NoOps)]

\* dummy_emitter(start, end): one row (i, -1) for every i in xrange(start, end)
dummy_emitter(start, end) ==
    [k \in 1..(IF end > start THEN end - start ELSE 0) |-> Row(start + k - 1, NoOps)]

\* the loop body as it would be with count += delta_time placed after the 'failed' test
iteration_late_advance(c, d, line) ==
    LET c1 == c + d
    IN  IF Contains(line, FAILED)
            THEN [count |-> c, rows |-> <<>>, err |-> FALSE]
        ELSE IF Contains(line, THROUGHPUT)
            THEN LET p == parse(line)
                 IN  IF p.err
                         THEN [count |-> c1, rows |-> <<>>, err |-> TRUE]
                     ELSE IF p.time # c1
                         THEN [count |-> p.time,
                               rows |-> dummy_emitter(c1, p.time)
                                           \o <<Row(p.time, p.avg_latency)>>,
                               err |-> FALSE]
                     ELSE [count |-> c1,
                           rows |-> <<Row(p.time, p.avg_latency)>>,
                           err |-> FALSE]
        ELSE [count |-> c1, rows |-> <<>>, err |-> FALSE]

\* one pass of main's for loop over `line`, entered with count c and step d:
\* the count it leaves, the rows it prints, and whether parse raised
iteration(c, d, line) ==
    LET c1 == c + d
    IN  IF Contains(line, FAILED)
            THEN [count |-> c1, rows |-> <<>>, err |-> FALSE]
        ELSE IF Contains(line, THROUGHPUT)
            THEN LET p == parse(line)
                 IN  IF p.err
                         THEN [count |-> c1, rows |-> <<>>, err |-> TRUE]
                     ELSE IF p.time # c1
                         THEN [count |-> p.time,
                               rows |-> dummy_emitter(c1, p.time)
                                           \o <<Row(p.time, p.avg_latency)>>,
                               err |-> FALSE]
                     ELSE [count |-> c1,
                           rows |-> <<Row(p.time, p.avg_latency)>>,
                           err |-> FALSE]
        ELSE [count |-> c1, rows |-> <<>>, err |-> FALSE]

VARIABLES
    file,        \* reporting: the lines of the log file
    opt_d,       \* reporting: opts.d, the value of -d/--delta
    delta_time,  \* reporting: main's delta_time (its argument until main overwrites it)
    count,       \* reporting: main's count
    pos,         \* reporting: number of lines the for loop has taken
    out,         \* reporting: rows printed so far
    pc,          \* reporting: "start", "loop", "done", "error"
    rc,          \* generator: options.rc
    ic,          \* generator: options.ic
    gpc,         \* generator: the statement generate_configuration is at
    template_read,     \* generator: the template file has been read
    prompted,          \* generator: raw_input has been called
    num_config_files,  \* generator: num_config_files
    i,           \* generator: the loop variable
    written      \* generator: the files written so far, in order

rvars == <<file, opt_d, delta_time, count, pos, out, pc>>
gvars == <<rc, ic, gpc, template_read, prompted, num_config_files, i, written>>
vars == <<file, opt_d, delta_time, count, pos, out, pc,
          rc, ic, gpc, template_read, prompted, num_config_files, i, written>>

\* ---------------------------------------------------------- reporting: main
RInit ==
    /\ file \in Files
    /\ opt_d \in DeltaFlags
    /\ delta_time = opt_d
    /\ count = 0
    /\ pos = 0
    /\ out = <<>>
    /\ pc = "start"

\* MainStart as it would be without the line delta_time = 10
MainStart_keeps_flag ==
    /\ pc = "start"
    /\ delta_time' = delta_time
    /\ count' = 0 - delta_time'
    /\ pc' = "loop"
    /\ UNCHANGED <<file, opt_d, pos, out>>
    /\ UNCHANGED gvars

\* main(opts.f, int(opts.d)) is entered: delta_time = 10; count = 0 - delta_time
MainStart ==
    /\ pc = "start"
    /\ delta_time' = 10
    /\ count' = 0 - delta_time'
    /\ pc' = "loop"
    /\ UNCHANGED <<file, opt_d, pos, out>>
    /\ UNCHANGED gvars

\* the loop takes the next line and runs its body on it
Iterate(line) ==
    LET r == iteration(count, delta_time, line)
    IN  /\ count' = r.count
        /\ out' = out \o r.rows
        /\ pc' = IF r.err THEN "error" ELSE "loop"
        /\ pos' = pos + 1
        /\ UNCHANGED <<file, opt_d, delta_time>>
        /\ UNCHANGED gvars

\* a line holding 'failed': continue
MainSkipFailed ==
    /\ pc = "loop"
    /\ pos < Len(file)
    /\ Contains(file[pos + 1], FAILED)
    /\ Iterate(file[pos + 1])

\* a line holding 'current ops/sec' that parses: backfill, then print the sample
MainEmitSample ==
    /\ pc = "loop"
    /\ pos < Len(file)
    /\ ~Contains(file[pos + 1], FAILED)
    /\ Contains(file[pos + 1], THROUGHPUT)
    /\ ~parse(file[pos + 1]).err
    /\ Iterate(file[pos + 1])

\* a line holding 'current ops/sec' on which parse raises: the exception ends main
MainParseError ==
    /\ pc = "loop"
    /\ pos < Len(file)
    /\ ~Contains(file[pos + 1], FAILED)
    /\ Contains(file[pos + 1], THROUGHPUT)
    /\ parse(file[pos + 1]).err
    /\ Iterate(file[pos + 1])

\* any other line
MainIgnoreLine ==
    /\ pc = "loop"
    /\ pos < Len(file)
    /\ ~Contains(file[pos + 1], FAILED)
    /\ ~Contains(file[pos + 1], THROUGHPUT)
    /\ Iterate(file[pos + 1])

\* the file is exhausted
MainEnd ==
    /\ pc = "loop"
    /\ pos = Len(file)
    /\ pc' = "done"
    /\ UNCHANGED <<file, opt_d, delta_time, count, pos, out>>
    /\ UNCHANGED gvars

RNext ==
    \/ MainStart
    \/ MainSkipFailed
    \/ MainEmitSample
    \/ MainParseError
    \/ MainIgnoreLine
    \/ MainEnd

\* ------------------------------------------- workloadgenerator.py constants
operation_count == 10000000
thread_count == 100
fieldlength == 200
fieldcount == 10
scanproportion == 0
insertproportion == 0
hosts == "queenbee"
output_file == "workload"

\* record_count / insert_count on two Python 2 ints: floor division
PyDiv(a, b) == a \div b

\* int(math.ceil(x)) of a value that is already an integer
CeilOfInt(x) == x

\* the context handed to pystache.render for file n
Context(n) ==
    [recordcount |-> rc,
     operationcount |-> operation_count,
     insertstart |-> n * ic,
     insertcount |-> ic,
     fieldlength |-> fieldlength,
     fieldcount |-> fieldcount,
     workload |-> "com.yahoo.ycsb.workloads.CoreWorkload",
     readallfields |-> "true",
     readproportion |-> "0.9",
     updateproportion |-> "0.1",
     scanproportion |-> scanproportion,
     insertproportion |-> insertproportion,
     requestdistribution |-> "uniform",
     hosts |-> hosts,
     threadcount |-> thread_count,
     readconsistencylevel |-> "QUORUM",
     writeconsistencylevel |-> "QUORUM"]

\* ''.join([output_file, '_', '%s' % n])
FileName(n) == <<output_file, "_", Str(n)>>

\* --------------------------------------------------- generate_configuration
GInit ==
    /\ rc \in 0..MaxRecordCount
    /\ ic \in 0..MaxInsertCount
    /\ gpc = "assert"
    /\ template_read = FALSE
    /\ prompted = FALSE
    /\ num_config_files = 0
    /\ i = 0
    /\ written = <<>>

\* assert(record_count >= insert_count) holds
GenAssertOk ==
    /\ gpc = "assert"
    /\ rc >= ic
    /\ gpc' = "read_template"
    /\ UNCHANGED <<rc, ic, template_read, prompted, num_config_files, i, written>>
    /\ UNCHANGED rvars

\* GenAssertFail as it would be with the assert statement compiled away
GenAssertFail_disabled ==
    /\ gpc = "assert"
    /\ ~(rc >= ic)
    /\ gpc' = "read_template"
    /\ UNCHANGED <<rc, ic, template_read, prompted, num_config_files, i, written>>
    /\ UNCHANGED rvars

\* assert(record_count >= insert_count) fails
GenAssertFail ==
    /\ gpc = "assert"
    /\ ~(rc >= ic)
    /\ gpc' = "AssertionError"
    /\ UNCHANGED <<rc, ic, template_read, prompted, num_config_files, i, written>>
    /\ UNCHANGED rvars

\* template = ''.join([line for line in open(template_dir)])
GenReadTemplate ==
    /\ gpc = "read_template"
    /\ template_read' = TRUE
    /\ gpc' = "compute"
    /\ UNCHANGED <<rc, ic, prompted, num_config_files, i, written>>
    /\ UNCHANGED rvars

\* num_config_files = int(math.ceil(record_count/insert_count))
GenCompute ==
    /\ gpc = "compute"
    /\ ic # 0
    /\ num_config_files' = CeilOfInt(PyDiv(rc, ic))
    /\ gpc' = "prompt"
    /\ UNCHANGED <<rc, ic, template_read, prompted, i, written>>
    /\ UNCHANGED rvars

\* record_count/insert_count with insert_count = 0
GenZeroDivision ==
    /\ gpc = "compute"
    /\ ic = 0
    /\ gpc' = "ZeroDivisionError"
    /\ UNCHANGED <<rc, ic, template_read, prompted, num_config_files, i, written>>
    /\ UNCHANGED rvars

\* raw_input('there will be %s config files generated, ...')
GenPrompt ==
    /\ gpc = "prompt"
    /\ prompted' = TRUE
    /\ i' = 0
    /\ gpc' = "loop"
    /\ UNCHANGED <<rc, ic, template_read, num_config_files, written>>
    /\ UNCHANGED rvars

\* one pass of the for loop: render the context and write the file
GenWriteFile ==
    /\ gpc = "loop"
    /\ i < num_config_files
    /\ written' = Append(written, [name |-> FileName(i), context |-> Context(i)])
    /\ i' = i + 1
    /\ UNCHANGED <<rc, ic, gpc, template_read, prompted, num_config_files>>
    /\ UNCHANGED rvars

\* xrange(num_config_files) is exhausted
GenEnd ==
    /\ gpc = "loop"
    /\ i >= num_config_files
    /\ gpc' = "done"
    /\ UNCHANGED <<rc, ic, template_read, prompted, num_config_files, i, written>>
    /\ UNCHANGED rvars

GNext ==
    \/ GenAssertOk
    \/ GenAssertFail
    \/ GenReadTemplate
    \/ GenCompute
    \/ GenZeroDivision
    \/ GenPrompt
    \/ GenWriteFile
    \/ GenEnd

\* ---------------------------------------------------------- specifications
\* the script that is not running stays as it was loaded
RIdle ==
    /\ file = <<>>
    /\ opt_d = 10
    /\ delta_time = 10
    /\ count = 0
    /\ pos = 0
    /\ out = <<>>
    /\ pc = "idle"

GIdle ==
    /\ rc = 0
    /\ ic = 0
    /\ gpc = "idle"
    /\ template_read = FALSE
    /\ prompted = FALSE
    /\ num_config_files = 0
    /\ i = 0
    /\ written = <<>>

\* a run of reporting.py
ReportInit == RInit /\ GIdle
SpecReport == ReportInit /\ [][RNext]_vars

\* a run of workloadgenerator.py
GenInit == GInit /\ RIdle
SpecGen == GenInit /\ [][GNext]_vars

\* ------------------------------------------------ properties: reporting.py
\* a throughput-report line: it holds the throughput marker and not the failure marker
IsThroughputReport(l) == Contains(l, THROUGHPUT) /\ ~Contains(l, FAILED)

Front(s) == SubSeq(s, 1, Len(s) - 1)
Last(s) == s[Len(s)]

StrictlyIncreasing(s) == \A k \in 1..(Len(s) - 1) : s[k] < s[k + 1]

\* the times of the rows printed so far, in output order
OutTimes == [k \in DOMAIN out |-> out[k].time]

\* the timestamps of the throughput-report lines main has parsed, in file order
ParsedLines ==
    SelectSeq(SubSeq(file, 1, pos), LAMBDA l : IsThroughputReport(l) /\ ~parse(l).err)
ParsedTimes == [k \in DOMAIN ParsedLines |-> parse(ParsedLines[k]).time]

\* the rows a run over `lines` prints when it starts with count c and steps by d
RECURSIVE RowsWithStep(_, _, _)
RowsWithStep(lines, c, d) ==
    IF lines = <<>> THEN <<>>
    ELSE LET r == iteration(c, d, Head(lines))
         IN  r.rows \o (IF r.err THEN <<>> ELSE RowsWithStep(Tail(lines), r.count, d))

\* the sentinel rows for the multiples of d from `from` up to `to`, exclusive
StepRows(from, to, d) ==
    [k \in 1..(IF to > from THEN (to - from + d - 1) \div d ELSE 0)
        |-> Row(from + (k - 1) * d, NoOps)]

\* C2: a log that parses yields a dense series: the number of rows is
\* (lastTime - firstTime)/delta + 1 and every delta-aligned time between the first and
\* the last row appears exactly once.
C2_DenseSeries ==
    (pc = "done" /\ out # <<>>) =>
        LET first == out[1].time
            last == Last(out).time
        IN  /\ Len(out) = (last - first) \div delta_time + 1
            /\ \A t \in first..last :
                   t % delta_time = 0 =>
                       Cardinality({k \in DOMAIN out : out[k].time = t}) = 1

\* C3: a throughput line whose timestamp differs from the expected time prints a
\* sentinel row for every multiple-of-delta step from the expected time up to the
\* timestamp (exclusive), for no other time, and then the real row.
C3_BackfillEveryStep ==
    [][(pc = "loop" /\ pos < Len(file) /\ IsThroughputReport(file[pos + 1])
            /\ ~parse(file[pos + 1]).err)
        => LET p == parse(file[pos + 1])
               expected == count + delta_time
           IN  out' = out \o StepRows(expected, p.time, delta_time)
                          \o <<Row(p.time, p.avg_latency)>>]_vars

\* C6: a throughput-report line without the timestamp marker ends the run in the
\* parse error and prints nothing; after the error no line is taken and nothing is
\* printed; a failure-marked line or a line with neither marker never raises it.
C6_AbortOnMalformed ==
    [][/\ pc # "error"
       /\ (pc = "loop" /\ pos < Len(file)) =>
              LET l == file[pos + 1]
              IN  /\ (IsThroughputReport(l) /\ ~Contains(l, SEC))
                         => (pc' = "error" /\ out' = out)
                  /\ ~IsThroughputReport(l) => pc' # "error"]_vars

\* rows were printed, then a throughput line without "sec:" ended the run with
\* lines of the file still unread
C6_Witness ==
    /\ pc = "error"
    /\ out # <<>>
    /\ pos < Len(file)
    /\ IsThroughputReport(file[pos])
    /\ ~Contains(file[pos], SEC)

\* C7: a throughput line with a timestamp and no read-latency field raises no error
\* and prints one row (timestamp, -1); count and the backfilled rows are those a
\* line with the same timestamp and a latency field gives.
C7_NoLatencyIsSentinel ==
    [][(pc = "loop" /\ pos < Len(file))
        => \A t \in Times :
               file[pos + 1] = NoReadLine(t) =>
                   LET r == iteration(count, delta_time, SampleLine(t, LoggedLatency(t)))
                   IN  /\ pc' = "loop"
                       /\ count' = r.count
                       /\ out' = out \o Front(r.rows) \o <<Row(t, NoOps)>>
                       /\ \A k \in DOMAIN Front(r.rows) : r.rows[k].time # t]_vars

\* a line without a latency field was taken after a gap: backfill rows, then (t, -1)
C7_Witness ==
    /\ pc = "loop"
    /\ pos = 1
    /\ \E t \in Times :
           /\ file[pos] = NoReadLine(t)
           /\ Len(out) >= 2
           /\ Last(out) = Row(t, NoOps)
           /\ out[Len(out) - 1].time < t

\* C8: whatever value is passed as delta_time, the rows printed are those of a run
\* with a time step of 10.
C8_DeltaFlagIgnored ==
    pc # "start" => out = RowsWithStep(SubSeq(file, 1, pos), 0 - 10, 10)

\* a run given -d 20 has printed a backfilled series
C8_Witness ==
    /\ opt_d = 20
    /\ pc = "done"
    /\ Len(out) > Len(ParsedTimes)

\* C9: every line advances count by delta before it is classified; a failure-marked
\* line (with or without the throughput marker) and a line with neither marker print
\* nothing and leave count at that advance; after n lines, none of them a
\* throughput-report line, count is (n - 1) * delta.
C9_CounterAdvance ==
    [][(pc = "loop" /\ pos < Len(file))
        => LET l == file[pos + 1]
           IN  /\ ~IsThroughputReport(l)
                    => (count' = count + delta_time /\ out' = out /\ pc' = "loop")
               /\ pc' = "error" => count' = count + delta_time
               /\ Len(out') > Len(out) + 1
                    => out'[Len(out) + 1].time = count + delta_time
               /\ (\A k \in 1..(pos + 1) : ~IsThroughputReport(file[k]))
                    => count' = pos * delta_time]_vars

\* three lines were taken, none a throughput report, one of them failure-marked with
\* the throughput marker
C9_Witness ==
    /\ pc = "loop"
    /\ pos = 3
    /\ \A k \in 1..pos : ~IsThroughputReport(file[k])
    /\ \E k \in 1..pos : Contains(file[k], FAILED) /\ Contains(file[k], THROUGHPUT)
    /\ \E k \in 1..pos : ~Contains(file[k], FAILED)
    /\ count = 20
    /\ out = <<>>

\* C10: when the timestamps of the throughput-report lines are non-negative and
\* strictly increasing in file order, the times of the printed rows are strictly
\* increasing in output order.
C10_OutputIncreasing ==
    pc # "start" =>
        LET ts == ParsedTimes
        IN  (StrictlyIncreasing(ts) /\ \A k \in DOMAIN ts : ts[k] >= 0)
                => StrictlyIncreasing(OutTimes)

\* two samples with increasing timestamps, a line that is no sample between them,
\* and sentinel rows among the output
C10_Witness ==
    /\ pc = "loop"
    /\ pos = 3
    /\ Len(ParsedTimes) = 2
    /\ ParsedTimes[1] < ParsedTimes[2]
    /\ ~IsThroughputReport(file[2])
    /\ Len(out) > 2

\* ----------------------------------------- properties: workloadgenerator.py
Ceil(a, b) == (a + b - 1) \div b

\* C1: for recordCount >= insertCountPerPartition >= 1 the run writes
\* ceil(recordCount / insertCountPerPartition) files, with indexes 0..n-1, file k
\* starting at k * insertCountPerPartition and inserting insertCountPerPartition.
C1_PartitionCount ==
    (gpc = "done" /\ rc >= ic /\ ic >= 1) =>
        /\ Len(written) = Ceil(rc, ic)
        /\ \A k \in DOMAIN written :
               /\ written[k].name = FileName(k - 1)
               /\ written[k].context.insertstart = (k - 1) * ic
               /\ written[k].context.insertcount = ic

\* C4: with recordCount < insertCountPerPartition the run ends at the assertion: no
\* file is written, the template is not read and the operator is not prompted.
C4_NoOutputOnInvalid ==
    (rc < ic /\ gpc # "assert") =>
        /\ gpc = "AssertionError"
        /\ written = <<>>
        /\ ~template_read
        /\ ~prompted

\* recordCount = 10, insertCountPerPartition = 50 has failed the assertion
C4_Witness ==
    /\ rc = 10
    /\ ic = 50
    /\ gpc = "AssertionError"

\* C5: for recordCount >= insertCountPerPartition >= 1 the ranges
\* [insertStart, insertStart + insertCount) of the files written start at 0, are
\* contiguous and disjoint, and contain every record index 0..recordCount-1.
C5_PartitionsCover ==
    (gpc = "done" /\ rc >= ic /\ ic >= 1) =>
        /\ written # <<>>
        /\ written[1].context.insertstart = 0
        /\ \A k \in 1..(Len(written) - 1) :
               written[k + 1].context.insertstart
                   = written[k].context.insertstart + written[k].context.insertcount
        /\ \A r \in 0..(rc - 1) :
               \E k \in DOMAIN written :
                   /\ written[k].context.insertstart <= r
                   /\ r < written[k].context.insertstart + written[k].context.insertcount

====
